---- MODULE Spec2Model ----
(***************************************************************************)
(* Model of the VideoDownloader React component                            *)
(* (src/src/components/VideoDownloader.tsx).                               *)
(*                                                                         *)
(* The component state (the six useState cells) is the state of the model; *)
(* the requests that were posted with axios and have not yet settled are   *)
(* kept in `fetches' and `downloads'.  Every event handler and every       *)
(* continuation after an `await' is one atomic action (JavaScript runs     *)
(* each of them to completion on the single event loop).  `out' records    *)
(* what the last step did to the outside world: the toasts it pushed, the  *)
(* files it saved and the requests it posted.                              *)
(*                                                                         *)
(* JavaScript numbers are modelled as exact rationals plus NaN and the two *)
(* infinities, except in the percent of line 71, which is computed on IEEE *)
(* doubles; the rounding of the elapsed and remaining times is not         *)
(* modelled.                                                               *)
(***************************************************************************)
EXTENDS Integers, Sequences, FiniteSets, TLC

VARIABLES url, error, loading, videoInfo, progress, estimatedTime,
          fetches, downloads, nFetch, nDown, out

vars == <<url, error, loading, videoInfo, progress, estimatedTime,
          fetches, downloads, nFetch, nDown, out>>

(***************************************************************************)
(* Bounds of the model.                                                    *)
(***************************************************************************)
\* number of metadata fetches the user may trigger by changing the URL
MaxFetch == 2
\* number of downloads the user may start
MaxDown == 2
\* size in bytes of a body whose length is announced (Content-Length)
MaxBytes == 2
\* largest input of formatTime, in seconds, in the formatting harness
MaxSeconds == 130

\* largest announced size, in bytes, in the constant-throughput harness
MaxEtaBytes == 50

\* number of operations (fetches and downloads) the user may start in the
\* behaviours checked for liveness
MaxLiveOps == 3

\* the URLs the user may type or paste
Urls == {"A", "B"}
\* milliseconds between the start of the request and a progress event
ElapsedMs == {0, 90000}

(***************************************************************************)
(* JavaScript values.                                                      *)
(***************************************************************************)
Null == [k |-> "null"]
Undefined == [k |-> "undefined"]
NaN == [k |-> "nan"]
PosInf == [k |-> "inf"]
NegInf == [k |-> "-inf"]

RECURSIVE Gcd(_, _)
Gcd(a, b) == IF b = 0 THEN a ELSE Gcd(b, a % b)

Abs(n) == IF n < 0 THEN -n ELSE n

\* the finite number n/d (d # 0), in lowest terms with a positive denominator
Rat(n, d) ==
    LET g == Gcd(Abs(n), Abs(d))
        s == IF d < 0 THEN -1 ELSE 1
    IN  [k |-> "num", n |-> (s * n) \div g, d |-> (s * d) \div g]

Num(n) == [k |-> "num", n |-> n, d |-> 1]

IsNum(x) == x.k = "num"

\* a / b
JsDiv(a, b) ==
    IF a = NaN \/ b = NaN THEN NaN
    ELSE IF ~IsNum(a)
         THEN IF ~IsNum(b) THEN NaN
              ELSE IF (a = PosInf) = (b.n >= 0) THEN PosInf ELSE NegInf
    ELSE IF ~IsNum(b) THEN Num(0)
    ELSE IF b.n = 0
         THEN IF a.n = 0 THEN NaN ELSE IF a.n > 0 THEN PosInf ELSE NegInf
    ELSE Rat(a.n * b.d, a.d * b.n)

\* a * b
JsMul(a, b) ==
    IF a = NaN \/ b = NaN THEN NaN
    ELSE IF IsNum(a) /\ IsNum(b) THEN Rat(a.n * b.n, a.d * b.d)
    ELSE IF (IsNum(a) /\ a.n = 0) \/ (IsNum(b) /\ b.n = 0) THEN NaN
    ELSE LET pa == IF IsNum(a) THEN a.n > 0 ELSE a = PosInf
             pb == IF IsNum(b) THEN b.n > 0 ELSE b = PosInf
         IN  IF pa = pb THEN PosInf ELSE NegInf

\* a - b
JsSub(a, b) ==
    IF a = NaN \/ b = NaN THEN NaN
    ELSE IF IsNum(a) /\ IsNum(b) THEN Rat(a.n * b.d - b.n * a.d, a.d * b.d)
    ELSE IF IsNum(b) THEN a
    ELSE IF IsNum(a) THEN (IF b = PosInf THEN NegInf ELSE PosInf)
    ELSE IF a = b THEN NaN ELSE a

\* a < b for two values that are not NaN
JsLess(a, b) ==
    IF IsNum(a) /\ IsNum(b) THEN a.n * b.d < b.n * a.d
    ELSE IF a = b THEN FALSE
    ELSE a = NegInf \/ b = PosInf

\* Math.floor(a)
MathFloor(a) == IF IsNum(a) THEN Num(a.n \div a.d) ELSE a

\* Math.max(a, b)
MathMax(a, b) ==
    IF a = NaN \/ b = NaN THEN NaN
    ELSE IF JsLess(a, b) THEN b ELSE a

\* the integer part of a finite number (rounding towards zero)
Trunc(a) == IF a.n >= 0 THEN a.n \div a.d ELSE -((-a.n) \div a.d)

\* a % b: the remainder has the sign of the dividend
JsRem(a, b) ==
    IF a = NaN \/ b = NaN THEN NaN
    ELSE IF ~IsNum(a) THEN NaN
    ELSE IF ~IsNum(b) THEN a
    ELSE IF b.n = 0 THEN NaN
    ELSE JsSub(a, JsMul(b, Num(Trunc(JsDiv(a, b)))))

\* `${x}` of a number
NumToString(x) ==
    IF x = NaN THEN "NaN"
    ELSE IF x = PosInf THEN "Infinity"
    ELSE IF x = NegInf THEN "-Infinity"
    ELSE IF x.d = 1 THEN ToString(x.n)
    ELSE ToString(x.n) \o "/" \o ToString(x.d)

(***************************************************************************)
(* IEEE 754 doubles, for the one computation whose result depends on their *)
(* rounding: the percent of line 71.  A positive double is its 53          *)
(* significant bits in four limbs, m = <<a, b, c, d>> with                 *)
(* 2^13 <= a < 2^14 and b, c, d < 2^13, and the exponent e of its first    *)
(* bit: its value is (a * 2^39 + b * 2^26 + c * 2^13 + d) * 2^(e - 52).    *)
(***************************************************************************)
Limb == 8192

RECURSIVE Pow2(_)
Pow2(n) == IF n = 0 THEN 1 ELSE 2 * Pow2(n - 1)

\* the number of binary digits of a natural number
RECURSIVE BitLen(_)
BitLen(n) == IF n = 0 THEN 0 ELSE 1 + BitLen(n \div 2)

\* the limbs m plus one unit in the last place
AddUlp(m, e) ==
    IF m[4] + 1 < Limb THEN [m |-> <<m[1], m[2], m[3], m[4] + 1>>, e |-> e]
    ELSE IF m[3] + 1 < Limb THEN [m |-> <<m[1], m[2], m[3] + 1, 0>>, e |-> e]
    ELSE IF m[2] + 1 < Limb THEN [m |-> <<m[1], m[2] + 1, 0, 0>>, e |-> e]
    ELSE IF m[1] + 1 < 2 * Limb THEN [m |-> <<m[1] + 1, 0, 0, 0>>, e |-> e]
    ELSE [m |-> <<Limb, 0, 0, 0>>, e |-> e + 1]

\* round to nearest, ties to even: `half' is the first dropped bit and
\* `more' tells whether a later dropped bit is 1
RoundNearestEven(m, e, half, more) ==
    IF half /\ (more \/ m[4] % 2 = 1) THEN AddUlp(m, e)
    ELSE [m |-> m, e |-> e]

\* the number of places c is shifted left to reach t <= c * 2^s
RECURSIVE ShiftTo(_, _)
ShiftTo(c, t) == IF c >= t THEN 0 ELSE 1 + ShiftTo(2 * c, t)

\* the double c / t, for integers 0 < c <= t < 2^16
DoubleDiv(c, t) ==
    LET s == ShiftTo(c, t)
        x == c * Pow2(s)
        a == (x * Limb) \div t
        r1 == (x * Limb) % t
        b == (r1 * Limb) \div t
        r2 == (r1 * Limb) % t
        cc == (r2 * Limb) \div t
        r3 == (r2 * Limb) % t
        d == (r3 * Limb) \div t
        r4 == (r3 * Limb) % t
    IN  RoundNearestEven(<<a, b, cc, d>>, -s, 2 * r4 >= t, (2 * r4) % t # 0)

\* the double x * k, for an integer 0 < k < 2^13
DoubleTimes(x, k) ==
    LET p4 == x.m[4] * k
        p3 == x.m[3] * k + p4 \div Limb
        p2 == x.m[2] * k + p3 \div Limb
        top == x.m[1] * k + p2 \div Limb
        l2 == p2 % Limb
        l3 == p3 % Limb
        l4 == p4 % Limb
        drop == BitLen(top) - 14
        lo == Pow2(drop)
        hi == Limb \div lo
        m == << top \div lo,
                (top % lo) * hi + l2 \div lo,
                (l2 % lo) * hi + l3 \div lo,
                (l3 % lo) * hi + l4 \div lo >>
    IN  IF drop = 0 THEN [m |-> m, e |-> x.e]
        ELSE RoundNearestEven(m, x.e + drop,
                              (l4 \div (lo \div 2)) % 2 = 1,
                              l4 % (lo \div 2) # 0)

\* Math.floor(x) of a positive double below 2^13
DoubleFloor(x) ==
    IF x.e < 0 THEN 0 ELSE x.m[1] \div Pow2(13 - x.e)

(***************************************************************************)
(* JavaScript strings that are taken apart by the code are sequences of    *)
(* tokens (the string is their concatenation); the separator 'filename='   *)
(* is one token.                                                           *)
(***************************************************************************)
Str(tokens) == [k |-> "str", s |-> tokens]

FilenameEq == "filename="

\* a string, undefined or null used as a condition
Truthy(v) == v.k = "str" /\ v.s # <<>>

RECURSIVE Concat(_)
Concat(tokens) ==
    IF tokens = <<>> THEN "" ELSE Head(tokens) \o Concat(Tail(tokens))

\* s.split(sep): the pieces of s between the occurrences of sep
RECURSIVE Split(_, _)
Split(tokens, sep) ==
    IF \A i \in 1..Len(tokens) : tokens[i] # sep
    THEN <<tokens>>
    ELSE LET i == CHOOSE j \in 1..Len(tokens) :
                      /\ tokens[j] = sep
                      /\ \A h \in 1..(j - 1) : tokens[h] # sep
         IN  <<SubSeq(tokens, 1, i - 1)>>
                 \o Split(SubSeq(tokens, i + 1, Len(tokens)), sep)

\* a[i] with the index counted from 0
At(a, i) == IF i + 1 \in 1..Len(a) THEN Str(a[i + 1]) ELSE Undefined

\* the value of the attribute after setAttribute(name, v)
AttrString(v) == IF v.k = "str" THEN Concat(v.s) ELSE v.k

(***************************************************************************)
(* formatTime, lines 133-137.                                              *)
(***************************************************************************)
formatTime(seconds) ==
    LET minutes == MathFloor(JsDiv(seconds, Num(60)))
        secs == MathFloor(JsRem(seconds, Num(60)))
    IN  NumToString(minutes) \o "m " \o NumToString(secs) \o "s"

(***************************************************************************)
(* The two services and the messages of the failures.                      *)
(***************************************************************************)
\* the title the metadata service reports for a URL
TitleOf(u) == "T" \o u

\* response.data of POST /video-info: metadata, metadata without a title,
\* or an embedded error
VideoInfoData(u) ==
    { [title |-> TitleOf(u), error |-> ""],
      [title |-> "", error |-> ""],
      [title |-> "", error |-> "Video unavailable"] }

\* how a POST /video-info settles: a response, or a rejection
FetchOutcomes(u) ==
    { [ok |-> TRUE, data |-> d, message |-> ""] : d \in VideoInfoData(u) }
        \cup { [ok |-> FALSE, data |-> Null, message |-> "Network Error"] }

\* response.headers['content-disposition'] of POST /download
Dispositions ==
    { Undefined,
      Str(<<>>),
      Str(<<"inline">>),
      Str(<<"attachment; ", FilenameEq, "clip.mp4">>),
      Str(<<FilenameEq, "a.mp4; ", FilenameEq, "b.mp4">>) }

\* progressEvent.total of the events of one download: 0 when unknown
Totals == {0, MaxBytes}

Toast(kind, text) == [kind |-> kind, text |-> text]

NoOut == [op |-> "init", toasts |-> <<>>, saved |-> <<>>, issued |-> <<>>,
          arg |-> Null]

Out(op, toasts, saved, issued, arg) ==
    [op |-> op, toasts |-> toasts, saved |-> saved, issued |-> issued,
     arg |-> arg]

\* the request of fetchVideoInfo(u)
InfoRequest(u) == [to |-> "/video-info", url |-> u]

RemoveAt(s, i) == SubSeq(s, 1, i - 1) \o SubSeq(s, i + 1, Len(s))

(***************************************************************************)
(* The state after the first render, lines 8-13.                           *)
(***************************************************************************)
Init ==
    /\ url = ""
    /\ error = ""
    /\ loading = FALSE
    /\ videoInfo = Null
    /\ progress = Num(0)
    /\ estimatedTime = Null
    /\ fetches = [u \in Urls |-> 0]
    /\ downloads = <<>>
    /\ nFetch = 0
    /\ nDown = 0
    /\ out = NoOut

(***************************************************************************)
(* setUrl(u) followed by the effect of lines 15-19: when the URL changed   *)
(* and is not empty, fetchVideoInfo(u) runs up to its await (lines 21-25). *)
(***************************************************************************)
ChangeUrl(u) ==
    /\ url' = u
    /\ IF u # url /\ u # ""
       THEN /\ nFetch < MaxFetch
            /\ nFetch' = nFetch + 1
            /\ loading' = TRUE
            /\ error' = ""
            /\ fetches' = [fetches EXCEPT ![u] = @ + 1]
            /\ out' = Out("setUrl", <<>>, <<>>, <<InfoRequest(u)>>, Null)
       ELSE /\ UNCHANGED <<nFetch, loading, error, fetches>>
            /\ out' = Out("setUrl", <<>>, <<>>, <<>>, Null)
    /\ UNCHANGED <<videoInfo, progress, estimatedTime, downloads, nDown>>

\* the onChange handler of the input, line 148
OnChange ==
    \E u \in Urls \cup {""} :
        /\ u # url
        /\ ChangeUrl(u)

\* handlePaste, lines 116-123
handlePaste ==
    \/ \E clipboardText \in Urls \cup {""} : ChangeUrl(clipboardText)
    \/ /\ out' = Out("paste", <<Toast("error", "Failed to paste from clipboard")>>,
                     <<>>, <<>>, Null)
       /\ UNCHANGED <<url, error, loading, videoInfo, progress, estimatedTime,
                      fetches, downloads, nFetch, nDown>>

\* handleClear, lines 125-131
handleClear ==
    /\ url' = ""
    /\ videoInfo' = Null
    /\ error' = ""
    /\ progress' = Num(0)
    /\ estimatedTime' = Null
    /\ out' = Out("clear", <<>>, <<>>, <<>>, Null)
    /\ UNCHANGED <<loading, fetches, downloads, nFetch, nDown>>

(***************************************************************************)
(* The continuation of fetchVideoInfo(u) after its await, lines 30-43.     *)
(***************************************************************************)
FetchSettles(u, r) ==
    /\ fetches[u] > 0
    /\ fetches' = [fetches EXCEPT ![u] = @ - 1]
    /\ IF r.ok /\ r.data.error = ""
       THEN /\ videoInfo' = r.data
            /\ error' = error
            /\ out' = Out("fetchSettles", <<>>, <<>>, <<>>,
                          [url |-> u, ok |-> TRUE])
       ELSE LET message == IF r.ok THEN r.data.error ELSE r.message
            IN  /\ videoInfo' = videoInfo
                /\ error' = "Error fetching video info: " \o message
                /\ out' = Out("fetchSettles",
                              <<Toast("error", "Invalid URL: " \o message)>>,
                              <<>>, <<>>, [url |-> u, ok |-> FALSE])
    /\ loading' = FALSE
    /\ UNCHANGED <<url, progress, estimatedTime, downloads, nFetch, nDown>>

fetchVideoInfoSettles ==
    \E u \in Urls : \E r \in FetchOutcomes(u) : FetchSettles(u, r)

(***************************************************************************)
(* handleDownload up to its await, lines 46-84.  The button that calls it  *)
(* is disabled while loading (line 168).  The request keeps the url and    *)
(* the videoInfo of the render the handler belongs to.                     *)
(***************************************************************************)
DownloadRequest(u, title) == [to |-> "/download", url |-> u, title |-> title]

\* line 47 without the test of an empty title
InvalidNoTitleTest(u, info) == u = "" \/ info = Null

\* the condition of line 47
Invalid(u, info) == u = "" \/ info = Null \/ info.title = ""

handleDownload ==
    /\ ~loading
    /\ IF Invalid(url, videoInfo)
       THEN /\ error' = "URL and video title are required"
            /\ out' = Out("download",
                          <<Toast("error", "URL and video title are required")>>,
                          <<>>, <<>>, Null)
            /\ UNCHANGED <<loading, progress, estimatedTime, videoInfo,
                           downloads, nDown>>
       ELSE /\ nDown < MaxDown
            /\ nDown' = nDown + 1
            /\ loading' = TRUE
            /\ error' = ""
            /\ progress' = Num(0)
            /\ estimatedTime' = Null
            /\ videoInfo' = Null
            /\ \E total \in Totals :
                   downloads' = Append(downloads,
                                       [url |-> url, title |-> videoInfo.title,
                                        total |-> total, loaded |-> 0])
            /\ out' = Out("download", <<>>, <<>>,
                          <<DownloadRequest(url, videoInfo.title)>>, Null)
    /\ UNCHANGED <<url, fetches, nFetch>>

(***************************************************************************)
(* onDownloadProgress, lines 68-82: event of download i with `loaded'      *)
(* bytes received, elapsedMs after progressEvent.startTime.                *)
(***************************************************************************)
\* line 71; 0, NaN and Infinity when current or total is 0
Percent(current, total) ==
    IF current = 0 \/ total = 0
    THEN MathFloor(JsMul(JsDiv(Num(current), Num(total)), Num(100)))
    ELSE Num(DoubleFloor(DoubleTimes(DoubleDiv(current, total), 100)))

\* lines 77-79 without the subtraction of the elapsed time
RemainingTimeNoSub(current, total, elapsedMs) ==
    LET elapsedTime == JsDiv(Num(elapsedMs), Num(1000))
        totalTime == JsDiv(elapsedTime, JsDiv(Num(current), Num(total)))
    IN  MathMax(totalTime, Num(0))

RemainingTime(current, total, elapsedMs) ==
    LET elapsedTime == JsDiv(Num(elapsedMs), Num(1000))
        totalTime == JsDiv(elapsedTime, JsDiv(Num(current), Num(total)))
    IN  MathMax(JsSub(totalTime, elapsedTime), Num(0))

\* line 76 with >= for >
TotalKnownOrZero(total) == total >= 0

\* the condition of line 76
TotalKnown(total) == total > 0

ProgressEvent(i, current, elapsedMs) ==
    LET total == downloads[i].total
    IN  /\ progress' = Percent(current, total)
        /\ IF TotalKnown(total)
           THEN estimatedTime' =
                    Str(<<formatTime(RemainingTime(current, total, elapsedMs))>>)
           ELSE estimatedTime' = estimatedTime
        /\ downloads' = [downloads EXCEPT ![i].loaded = current]
        /\ out' = Out("progress", <<>>, <<>>, <<>>,
                      [total |-> total, loaded |-> current])
        /\ UNCHANGED <<url, error, loading, videoInfo, fetches, nFetch, nDown>>

onDownloadProgress ==
    \E i \in 1..Len(downloads) :
        \E current \in downloads[i].loaded..MaxBytes, elapsedMs \in ElapsedMs :
            ProgressEvent(i, current, elapsedMs)

(***************************************************************************)
(* The continuation of handleDownload after its await, lines 86-113.       *)
(***************************************************************************)
\* lines 86-87 with the fallback lacking its extension
FilenameNoExtension(contentDisposition, title) ==
    IF Truthy(contentDisposition)
    THEN At(Split(contentDisposition.s, FilenameEq), 1)
    ELSE Str(<<title>>)

\* lines 86-87
Filename(contentDisposition, title) ==
    IF Truthy(contentDisposition)
    THEN At(Split(contentDisposition.s, FilenameEq), 1)
    ELSE Str(<<title, ".mp4">>)

\* line 89 with < for ===
EmptyFileNever(size) == size < 0

\* the condition of line 89
EmptyFile(size) == size = 0

\* lines 108-113 without the setError of line 109
DownloadFailsSilently(i, message) ==
    /\ error' = error
    /\ loading' = FALSE
    /\ downloads' = RemoveAt(downloads, i)
    /\ UNCHANGED <<url, videoInfo, progress, estimatedTime, fetches, nFetch,
                   nDown>>

\* lines 108-113 with the progress and the estimate reset
DownloadFailsResets(i, message) ==
    /\ error' = "Error downloading video: " \o message
    /\ loading' = FALSE
    /\ progress' = Num(0)
    /\ estimatedTime' = Null
    /\ downloads' = RemoveAt(downloads, i)
    /\ UNCHANGED <<url, videoInfo, fetches, nFetch, nDown>>

\* lines 108-113 without the setLoading of the finally
DownloadFailsKeepsLoading(i, message) ==
    /\ error' = "Error downloading video: " \o message
    /\ loading' = loading
    /\ downloads' = RemoveAt(downloads, i)
    /\ UNCHANGED <<url, videoInfo, progress, estimatedTime, fetches, nFetch,
                   nDown>>

DownloadFails(i, message) ==
    /\ error' = "Error downloading video: " \o message
    /\ loading' = FALSE
    /\ downloads' = RemoveAt(downloads, i)
    /\ UNCHANGED <<url, videoInfo, progress, estimatedTime, fetches, nFetch,
                   nDown>>

\* lines 89-100 with the file saved before the test of its size
SavedFilesBeforeTest(size, filename) ==
    <<[name |-> AttrString(filename), size |-> size]>>

\* the files saved by lines 89-100
SavedFiles(size, filename) ==
    IF EmptyFile(size) THEN <<>>
    ELSE <<[name |-> AttrString(filename), size |-> size]>>

\* line 103 with the url of the current render
RefreshCurrentUrl(d) == IF url = "" THEN d.url ELSE url

\* the url of line 103: the one of the render that started the download
RefreshUrl(d) == d.url

\* the request is rejected
DownloadRejected(i) ==
    /\ DownloadFails(i, "Network Error")
    /\ out' = Out("downloadSettles",
                  <<Toast("error", "Error downloading video: Network Error")>>,
                  <<>>, <<>>, [url |-> downloads[i].url, title |-> downloads[i].title,
                   ok |-> FALSE])

\* the response arrives with a body of `size' bytes
DownloadResponse(i, size, contentDisposition) ==
    LET d == downloads[i]
        filename == Filename(contentDisposition, d.title)
        arg == [url |-> d.url, title |-> d.title, ok |-> TRUE, size |-> size,
                contentDisposition |-> contentDisposition]
    IN  IF EmptyFile(size)
        THEN /\ DownloadFails(i, "Received empty file")
             /\ out' = Out("downloadSettles",
                           <<Toast("error",
                                   "Error downloading video: Received empty file")>>,
                           SavedFiles(size, filename), <<>>, arg)
        ELSE /\ error' = ""
             /\ loading' = FALSE
             /\ fetches' = [fetches EXCEPT ![RefreshUrl(d)] = @ + 1]
             /\ downloads' = RemoveAt(downloads, i)
             /\ out' = Out("downloadSettles",
                           <<Toast("success", "Download completed successfully!")>>,
                           SavedFiles(size, filename),
                           <<InfoRequest(RefreshUrl(d))>>, arg)
             /\ UNCHANGED <<url, videoInfo, progress, estimatedTime, nFetch,
                            nDown>>

\* the sizes a body can have once `loaded' bytes of it were reported
BodySizes(d) ==
    IF d.total > 0 THEN {d.total} ELSE d.loaded..MaxBytes

handleDownloadSettles ==
    \E i \in 1..Len(downloads) :
        \/ DownloadRejected(i)
        \/ \E size \in BodySizes(downloads[i]), cd \in Dispositions :
               DownloadResponse(i, size, cd)

Next ==
    \/ OnChange
    \/ handlePaste
    \/ handleClear
    \/ fetchVideoInfoSettles
    \/ handleDownload
    \/ onDownloadProgress
    \/ handleDownloadSettles

Spec == Init /\ [][Next]_vars

\* the behaviours in which the user starts at most MaxLiveOps operations
NextLive == Next /\ nFetch' + nDown' <= MaxLiveOps

\* every request that was posted settles: axios resolves or rejects the
\* promise, and the continuation runs
SpecLive ==
    /\ Init
    /\ [][NextLive]_vars
    /\ WF_vars(fetchVideoInfoSettles)
    /\ WF_vars(handleDownloadSettles)

TypeOK ==
    /\ url \in Urls \cup {""}
    /\ loading \in BOOLEAN
    /\ nFetch \in 0..MaxFetch
    /\ nDown \in 0..MaxDown
    /\ Len(downloads) <= MaxDown
    /\ \A u \in Urls : fetches[u] \in 0..(MaxFetch + MaxDown)

(***************************************************************************)
(* A harness for formatTime: it is applied to every multiple of half a     *)
(* second between -MaxSeconds and MaxSeconds.                              *)
(***************************************************************************)
FormatStep ==
    \E n \in (-2 * MaxSeconds)..(2 * MaxSeconds) :
        /\ estimatedTime' = Str(<<formatTime(Rat(n, 2))>>)
        /\ out' = Out("formatTime", <<>>, <<>>, <<>>, Rat(n, 2))
        /\ UNCHANGED <<url, error, loading, videoInfo, progress, fetches,
                       downloads, nFetch, nDown>>

SpecFormat == Init /\ [][FormatStep]_vars

(***************************************************************************)
(* A harness for the computation of lines 68-82 on a stream of constant    *)
(* throughput: one download of `total' bytes is in flight, and every       *)
(* progress event reports more bytes than the one before, msPerByte        *)
(* milliseconds after the start for each byte received.                    *)
(***************************************************************************)
\* the throughputs of the harness, in milliseconds per byte
MsPerByte == {250, 1000, 7500}

InitEta ==
    \E total \in 1..MaxEtaBytes, ms \in MsPerByte :
        /\ url = "A"
        /\ error = ""
        /\ loading = TRUE
        /\ videoInfo = Null
        /\ progress = Num(0)
        /\ estimatedTime = Null
        /\ fetches = [u \in Urls |-> 0]
        /\ downloads = <<[url |-> "A", title |-> TitleOf("A"),
                          total |-> total, loaded |-> 0]>>
        /\ nFetch = 1
        /\ nDown = 1
        /\ out = Out("download", <<>>, <<>>,
                     <<DownloadRequest("A", TitleOf("A"))>>,
                     [msPerByte |-> ms, remaining |-> Null])

EtaStep ==
    \E current \in (downloads[1].loaded + 1)..downloads[1].total :
        LET total == downloads[1].total
            elapsedMs == current * out.arg.msPerByte
            remaining == RemainingTime(current, total, elapsedMs)
        IN  /\ progress' = Percent(current, total)
            /\ IF TotalKnown(total)
               THEN estimatedTime' = Str(<<formatTime(remaining)>>)
               ELSE estimatedTime' = estimatedTime
            /\ downloads' = [downloads EXCEPT ![1].loaded = current]
            /\ out' = Out("progress", <<>>, <<>>, <<>>,
                          [total |-> total, loaded |-> current,
                           msPerByte |-> out.arg.msPerByte,
                           remaining |-> remaining,
                           previous |-> out.arg.remaining,
                           percentBefore |-> progress])
            /\ UNCHANGED <<url, error, loading, videoInfo, fetches, nFetch,
                           nDown>>

SpecEta == InitEta /\ [][EtaStep]_vars

(***************************************************************************)
(* Properties.                                                             *)
(***************************************************************************)
\* the number of requests that have not settled
InFlight ==
    LET RECURSIVE Sum(_)
        Sum(S) == IF S = {} THEN 0
                  ELSE LET u == CHOOSE v \in S : TRUE
                       IN  fetches[u] + Sum(S \ {u})
    IN  Sum(Urls) + Len(downloads)

\* C1: the response of a metadata fetch that was issued for a URL that is
\* no longer the current url does not change videoInfo.
StaleResponseIgnored ==
    [][(out'.op = "fetchSettles" /\ out'.arg.url # url')
           => videoInfo' = videoInfo]_vars

\* C2: at most one request (metadata or download) is in flight.
OneOperationInFlight == InFlight <= 1

\* C3: at most one download request is in flight.
OneDownloadInFlight == Len(downloads) <= 1

\* C4: a download whose body has 0 bytes ends with the error 'Received empty
\* file' stored and notified and saves no file; every saved file has a
\* positive size.
EmptyFileRejected ==
    /\ (out.op = "downloadSettles" /\ out.arg.ok /\ out.arg.size = 0)
           => /\ error = "Error downloading video: Received empty file"
              /\ out.toasts = <<Toast("error", error)>>
              /\ out.saved = <<>>
    /\ \A i \in 1..Len(out.saved) : out.saved[i].size > 0

EmptyFileSeen ==
    /\ out.op = "downloadSettles"
    /\ out.arg.ok
    /\ out.arg.size = 0

\* C5: handleDownload called with an empty url or without a title posts no
\* request, stores and notifies 'URL and video title are required', and
\* leaves loading, progress, estimatedTime and videoInfo as they were.
ValidationFailFast ==
    [][(/\ out'.op = "download"
        /\ (url = "" \/ videoInfo = Null \/ videoInfo.title = ""))
           => /\ out'.issued = <<>>
              /\ downloads' = downloads
              /\ error' = "URL and video title are required"
              /\ out'.toasts = <<Toast("error", error')>>
              /\ UNCHANGED <<loading, progress, estimatedTime, videoInfo>>]_vars

TitleMissingSeen ==
    /\ out.op = "download"
    /\ url # ""
    /\ videoInfo # Null
    /\ videoInfo.title = ""
    /\ error = "URL and video title are required"

\* C6: while a download request is in flight videoInfo is null.
NoMetadataDuringDownload == Len(downloads) > 0 => videoInfo = Null

\* the tokens after the first 'filename=' of a header
TextAfterFilenameEq(tokens) ==
    LET i == CHOOSE j \in 1..Len(tokens) :
                 /\ tokens[j] = FilenameEq
                 /\ \A h \in 1..(j - 1) : tokens[h] # FilenameEq
    IN  SubSeq(tokens, i + 1, Len(tokens))

Occurrences(tokens, t) == Cardinality({j \in 1..Len(tokens) : tokens[j] = t})

PercentBounds == \E n \in 0..100 : progress = Num(n)

\* C9: formatTime(seconds) is '<floor(seconds/60)>m <floor(seconds mod 60)>s'
\* for seconds >= 0 and '0m 0s' for negative seconds.
DurationFormatting ==
    out.op = "formatTime"
        => LET whole == out.arg.n \div out.arg.d
           IN  estimatedTime =
                   IF out.arg.n >= 0
                   THEN Str(<<ToString(whole \div 60) \o "m "
                                  \o ToString(whole % 60) \o "s">>)
                   ELSE Str(<<"0m 0s">>)

\* C10: estimatedTime is set to a value only by a progress event with
\* total > 0; a progress event with total = 0 leaves it as it is, and the
\* start of a download sets it to null.
EtaWithheld ==
    [][/\ (estimatedTime' # estimatedTime /\ estimatedTime' # Null)
              => (out'.op = "progress" /\ out'.arg.total > 0)
       /\ (out'.op = "progress" /\ out'.arg.total = 0)
              => estimatedTime' = estimatedTime
       /\ (out'.op = "download" /\ out'.issued # <<>>)
              => estimatedTime' = Null]_vars

UnknownTotalSeen ==
    /\ out.op = "progress"
    /\ out.arg.total = 0
    /\ out.arg.loaded > 0
    /\ estimatedTime = Null
    /\ Len(downloads) > 0

\* C11: on a stream of constant throughput the remaining time of every
\* progress event is a number >= 0, is not larger than the remaining time of
\* the event before, and is 0 (shown as '0m 0s') when loaded = total.
EtaConvergence ==
    out.op = "progress"
        => /\ IsNum(out.arg.remaining)
           /\ out.arg.remaining.n >= 0
           /\ out.arg.previous # Null
                  => ~JsLess(out.arg.previous, out.arg.remaining)
           /\ out.arg.loaded = out.arg.total
                  => /\ out.arg.remaining = Num(0)
                     /\ estimatedTime = Str(<<"0m 0s">>)

EtaConverged ==
    /\ out.op = "progress"
    /\ out.arg.loaded = out.arg.total
    /\ out.arg.previous # Null
    /\ JsLess(Num(0), out.arg.previous)


\* C12: a download that saved its file posts a /video-info request for the
\* url of the download and notifies the success; a download that failed or
\* was rejected by the validation posts no request.
RefreshOnCompletion ==
    /\ out.op = "downloadSettles"
           => IF out.arg.ok /\ out.arg.size > 0
              THEN /\ Len(out.saved) = 1
                   /\ out.issued = <<InfoRequest(out.arg.url)>>
                   /\ fetches[out.arg.url] > 0
                   /\ out.toasts
                          = <<Toast("success", "Download completed successfully!")>>
              ELSE out.issued = <<>>
    /\ (out.op = "download" /\ out.toasts # <<>>) => out.issued = <<>>

RefreshForOldUrlSeen ==
    /\ out.op = "downloadSettles"
    /\ out.saved # <<>>
    /\ url # ""
    /\ url # out.arg.url

\* a step in which a metadata fetch or a download fails
FailureStep ==
    \/ out'.op = "fetchSettles" /\ ~out'.arg.ok
    \/ out'.op = "downloadSettles" /\ (~out'.arg.ok \/ out'.arg.size = 0)
    \/ /\ out'.op = "download"
       /\ (url = "" \/ videoInfo = Null \/ videoInfo.title = "")

\* C13: every failure of a metadata fetch or of a download (transport,
\* service error, validation, empty file) leaves a message in error and
\* pushes exactly one error toast.
ErrorPropagation ==
    [][FailureStep
           => /\ error' # ""
              /\ Len(out'.toasts) = 1
              /\ out'.toasts[1].kind = "error"
              /\ out'.toasts[1].text # ""]_vars

ServiceErrorSeen ==
    /\ out.op = "fetchSettles"
    /\ ~out.arg.ok
    /\ error = "Error fetching video info: Video unavailable"
    /\ out.toasts = <<Toast("error", "Invalid URL: Video unavailable")>>

\* C14: the step in which a download that passed the validation fails sets
\* error, ends the loading and changes nothing else: progress,
\* estimatedTime, url and videoInfo keep their values.
StateOnDownloadFailure ==
    [][(out'.op = "downloadSettles" /\ (~out'.arg.ok \/ out'.arg.size = 0))
           => /\ UNCHANGED <<progress, estimatedTime, url, videoInfo>>
              /\ error' # ""
              /\ loading' = FALSE
              /\ Len(downloads') = Len(downloads) - 1
              /\ fetches' = fetches]_vars

FailureAfterProgressSeen ==
    /\ out.op = "downloadSettles"
    /\ ~out.arg.ok
    /\ progress = Num(50)
    /\ estimatedTime # Null

\* C15: Clear, and every change of the url, leave videoInfo, error,
\* progress and estimatedTime with their initial values, and Clear also
\* loading and url (a change of the url to a new one starts a fetch, which
\* sets loading).
SessionReset ==
    [][/\ out'.op = "clear"
              => /\ url' = ""
                 /\ loading' = FALSE
                 /\ videoInfo' = Null /\ error' = ""
                 /\ progress' = Num(0) /\ estimatedTime' = Null
       /\ url' # url
              => /\ videoInfo' = Null /\ error' = ""
                 /\ progress' = Num(0) /\ estimatedTime' = Null]_vars

\* C16: every progress event of a download with total > 0 sets progress to
\* floor(loaded * 100 / total); the percents of successive events do not
\* decrease, and the percent is 100 when loaded = total.
ProgressValues ==
    out.op = "progress"
        => /\ progress = Num((out.arg.loaded * 100) \div out.arg.total)
           /\ out.arg.percentBefore.n <= progress.n
           /\ out.arg.loaded = out.arg.total => progress = Num(100)

\* C17: while url is empty and videoInfo, error, progress and estimatedTime
\* have their initial values (the state Clear leaves), the arrival of a
\* response or of a progress event of a request posted earlier changes none
\* of them.
ResultsAfterClearIgnored ==
    [][(/\ url = "" /\ videoInfo = Null /\ error = ""
        /\ progress = Num(0) /\ estimatedTime = Null
        /\ out'.op \in {"fetchSettles", "progress", "downloadSettles"})
           => UNCHANGED <<url, videoInfo, error, progress, estimatedTime>>]_vars

\* C18: a download whose request returns either saves one file, notifies
\* the success and leaves error empty, or saves no file, stores the error
\* and notifies it; never both, and never neither.
OneTerminalOutcome ==
    out.op = "downloadSettles"
        => LET completed == /\ Len(out.saved) = 1
                            /\ out.toasts = <<Toast("success",
                                   "Download completed successfully!")>>
                            /\ error = ""
               failed == /\ out.saved = <<>>
                         /\ Len(out.toasts) = 1
                         /\ out.toasts[1].kind = "error"
                         /\ error # ""
                         /\ out.toasts[1].text = error
           IN  completed # failed

CompletedSeen ==
    /\ out.op = "downloadSettles"
    /\ Len(out.saved) = 1
    /\ error = ""
    /\ ~loading

\* C19: when no request is in flight loading is false, and when every
\* request settles a state with no request in flight (and loading false) is
\* reached from every state.
Quiescence ==
    /\ [](InFlight = 0 => ~loading)
    /\ (InFlight > 0) ~> (InFlight = 0 /\ ~loading)

QuietAfterRefresh ==
    /\ InFlight = 0
    /\ ~loading
    /\ nDown > 0
    /\ out.op = "fetchSettles"

\* C20: every /download request carries the title that the metadata
\* service reports for the url it carries.
TitleMatchesUrl ==
    \A i \in 1..Len(out.issued) :
        out.issued[i].to = "/download"
            => out.issued[i].title = TitleOf(out.issued[i].url)
====
